---- MODULE Spec2Model ----
(***************************************************************************)
(* Model of resources/bins/simple_user_data.c: main calls parse_arg, which *)
(* turns argc/argv into a struct args or exits, then print_arg, which      *)
(* prints the struct.  Each action is one statement group of the source;   *)
(* pc is the position of the single thread of control.                     *)
(*                                                                         *)
(* A string is the sequence of its character codes (the terminating NUL    *)
(* is implicit); argv[0] is the program name and is not stored; argv[argc] *)
(* is the null pointer that terminates the argument vector.                *)
(***************************************************************************)
EXTENDS Integers, Sequences, FiniteSets, TLC

VARIABLES
    argc,     \* main's argc (line 85)
    argv,     \* main's argv[1..argc-1] (line 85)
    pc,       \* the statement group about to run
    counter,  \* parse_arg's cursor into argv (line 48)
    args,     \* the struct args of parse_arg, handed to print_arg (lines 47, 87)
    cmd,      \* parse_arg's long cmd (line 62)
    out,      \* standard output, one element per printf call
    status,   \* "running", "exit0", "exit1", or "SIGSEGV" when killed
    reads,    \* the reads argv[counter++] made so far, as <<index, use>>
    exit_in   \* the function that ended the process, "none" before

vars == <<argc, argv, pc, counter, args, cmd, out, status, reads, exit_in>>

----------------------------------------------------------------------------
(* Bounds of the inputs *)

\* argc ranges over 1..MaxArgc, i.e. 0..MaxArgc-1 argument tokens
MaxArgc == 5

\* print_arg on its own is given value fields in -MaxAbsValue..MaxAbsValue
MaxAbsValue == 2

\* The argument tokens the runs draw from:
\* "", "a", "bb", "abc", "x", "1x", "-1", "0", "1", "2", "3", "5", "9"
Tokens ==
    { <<>>, <<97>>, <<98, 98>>, <<97, 98, 99>>, <<120>>, <<49, 120>>,
      <<45, 49>>, <<48>>, <<49>>, <<50>>, <<51>>, <<53>>, <<57>> }

\* What a long may hold after a library call whose behaviour is undefined
UBLongs == {-1, 0, 1, 2, 3, 4}

\* What a read of an uninitialized int may yield
IndetInts == {-1, 0, 7}

\* The sub_value characters print_arg on its own is given: NUL, '1', 'a', DEL
PrintChars == {0, 49, 97, 127}

----------------------------------------------------------------------------
(* enum command *)

OP1 == 0
OP2 == 1
OP3 == 2
OP4 == 3

Commands == {OP1, OP2, OP3, OP4}

(* A field of struct args is Indet until it is assigned, then Val(x). *)
Indet == <<>>
Val(x) == <<x>>
Get(f) == f[1]

----------------------------------------------------------------------------
(* sscanf(s, "%d" / "%ld", &x): skip white space, an optional sign, then  *)
(* the longest run of decimal digits.  With no digit nothing is assigned. *)
(* The tokens are too short to overflow an int.                           *)

IsSpace(c) == c = 32 \/ c \in 9..13
IsDigit(c) == c \in 48..57

RECURSIVE SkipSpace(_, _)
SkipSpace(s, i) ==
    IF i <= Len(s) /\ IsSpace(s[i]) THEN SkipSpace(s, i + 1) ELSE i

RECURSIVE DigitRun(_, _)
DigitRun(s, i) ==
    IF i <= Len(s) /\ IsDigit(s[i]) THEN 1 + DigitRun(s, i + 1) ELSE 0

RECURSIVE DecValue(_, _, _)
DecValue(s, i, acc) ==
    IF i <= Len(s) /\ IsDigit(s[i])
    THEN DecValue(s, i + 1, acc * 10 + (s[i] - 48))
    ELSE acc

Scan(s) ==
    LET i == SkipSpace(s, 1)
        signed == i <= Len(s) /\ s[i] \in {43, 45}
        neg == i <= Len(s) /\ s[i] = 45
        j == IF signed THEN i + 1 ELSE i
    IN  IF DigitRun(s, j) = 0
        THEN [matched |-> FALSE, val |-> 0]
        ELSE [matched |-> TRUE,
              val |-> IF neg THEN 0 - DecValue(s, j, 0) ELSE DecValue(s, j, 0)]

(* argv[i]: a token for 1 <= i < argc, the null pointer for i = argc *)
IsNullPtr(i) == i >= argc
Argv(i) == argv[i]

(* s[0] of a C string: its first character, or the terminating NUL *)
FirstChar(s) == IF Len(s) = 0 THEN 0 ELSE s[1]

(* printf("...%d", n) *)
Fmt(text, n) == text \o ToString(n)

----------------------------------------------------------------------------
(* parse_arg *)

\* (mutant) the check only rejects too few arguments
ArityOkLowerOnly(n) == n >= 3

\* line 43, negated: the argument counts parse_arg goes on with
ArityOk(n) == ~(n /= 3 /\ n /= 4)

\* (mutant) the check only rejects the empty token
LenOkNonEmpty(s) == Len(s) >= 1

\* line 55, negated: the sub_value tokens parse_arg goes on with
LenOk(s) == ~(Len(s) /= 1)

Exit1(diag, fn) ==
    /\ out' = Append(out, diag)
    /\ status' = "exit1"
    /\ exit_in' = fn
    /\ pc' = "exited"

\* lines 43-48: the arity check, then the declarations
ParseArity ==
    /\ pc = "parse_arg"
    /\ IF ~ArityOk(argc)
       THEN /\ Exit1("Need 2 or 3 args", "parse_arg")
            /\ UNCHANGED <<counter, args>>
       ELSE /\ counter' = 1
            /\ args' = [value |-> Indet, sub_value |-> Indet, cmd |-> Indet]
            /\ pc' = "parse_value"
            /\ UNCHANGED <<out, status, exit_in>>
    /\ UNCHANGED <<argc, argv, cmd, reads>>

\* lines 49-53
ParseValue ==
    /\ pc = "parse_value"
    /\ IF argc = 4
       THEN /\ counter' = counter + 1
            /\ reads' = reads \cup {<<counter, "value">>}
            /\ args' = IF Scan(Argv(counter)).matched
                       THEN [args EXCEPT !.value = Val(Scan(Argv(counter)).val)]
                       ELSE args
       ELSE /\ args' = [args EXCEPT !.value = Val(0)]
            /\ UNCHANGED <<counter, reads>>
    /\ pc' = "parse_len"
    /\ UNCHANGED <<argc, argv, cmd, out, status, exit_in>>

\* lines 54-58
ParseSubValueLen ==
    /\ pc = "parse_len"
    /\ counter' = counter + 1
    /\ reads' = reads \cup {<<counter, "sub_value_len">>}
    /\ IF IsNullPtr(counter)
       THEN /\ status' = "SIGSEGV"
            /\ pc' = "exited"
            /\ UNCHANGED <<out, exit_in>>
       ELSE IF ~LenOk(Argv(counter))
       THEN Exit1("arg sub_value need to be size 1", "parse_arg")
       ELSE /\ pc' = "parse_sub"
            /\ UNCHANGED <<out, status, exit_in>>
    /\ UNCHANGED <<argc, argv, args, cmd>>

\* line 59
ParseSubValueChar ==
    /\ pc = "parse_sub"
    /\ counter' = counter + 1
    /\ reads' = reads \cup {<<counter, "sub_value">>}
    /\ IF IsNullPtr(counter)
       THEN /\ status' = "SIGSEGV"
            /\ pc' = "exited"
            /\ UNCHANGED args
       ELSE /\ args' = [args EXCEPT !.sub_value = Val(FirstChar(Argv(counter)))]
            /\ pc' = "parse_cmd"
            /\ UNCHANGED status
    /\ UNCHANGED <<argc, argv, cmd, out, exit_in>>

\* lines 61-63.  sscanf on the null pointer is undefined: the process is
\* killed, or the call comes back with cmd untouched (0) or overwritten.
ParseCmdScan ==
    /\ pc = "parse_cmd"
    /\ counter' = counter + 1
    /\ reads' = reads \cup {<<counter, "cmd">>}
    /\ IF IsNullPtr(counter)
       THEN \/ /\ status' = "SIGSEGV"
               /\ pc' = "exited"
               /\ cmd' = 0
            \/ /\ cmd' \in UBLongs
               /\ pc' = "parse_switch"
               /\ UNCHANGED status
       ELSE /\ cmd' = IF Scan(Argv(counter)).matched
                      THEN Scan(Argv(counter)).val
                      ELSE 0
            /\ pc' = "parse_switch"
            /\ UNCHANGED status
    /\ UNCHANGED <<argc, argv, args, out, exit_in>>

\* (mutant) the number is cast to the enum instead of being switched on
SwitchCmdCast(c) == [hit |-> TRUE, op |-> c]

\* the switch of lines 64-80: the enumerator a case assigns, or no case
SwitchCmd(c) ==
    IF c = 0 THEN [hit |-> TRUE, op |-> OP1]
    ELSE IF c = 1 THEN [hit |-> TRUE, op |-> OP2]
    ELSE IF c = 2 THEN [hit |-> TRUE, op |-> OP3]
    ELSE IF c = 3 THEN [hit |-> TRUE, op |-> OP4]
    ELSE [hit |-> FALSE, op |-> c]

\* lines 64-82
ParseCmdSwitch ==
    /\ pc = "parse_switch"
    /\ IF SwitchCmd(cmd).hit
       THEN /\ args' = [args EXCEPT !.cmd = Val(SwitchCmd(cmd).op)]
            /\ pc' = "print_arg"
            /\ UNCHANGED <<out, status, exit_in>>
       ELSE /\ Exit1("Invalid cmd", "parse_arg")
            /\ UNCHANGED args
    /\ UNCHANGED <<argc, argv, counter, cmd, reads>>

----------------------------------------------------------------------------
(* print_arg *)

\* lines 19-21.  An uninitialized value is read as any int.
PrintValue ==
    /\ pc = "print_arg"
    /\ \E v \in (IF args.value = Indet THEN IndetInts ELSE {Get(args.value)}) :
          out' = IF v /= 0 THEN Append(out, Fmt("value: ", v)) ELSE out
    /\ pc' = "print_sub"
    /\ UNCHANGED <<argc, argv, counter, args, cmd, status, reads, exit_in>>

\* line 22
PrintSubValue ==
    /\ pc = "print_sub"
    /\ out' = Append(out, Fmt("sub_value ", Get(args.sub_value)))
    /\ pc' = "print_cmd"
    /\ UNCHANGED <<argc, argv, counter, args, cmd, status, reads, exit_in>>

\* (mutant) the second case prints the third label
LabelSlip(c) ==
    IF c = OP1 THEN "OP1"
    ELSE IF c = OP2 THEN "OP3"
    ELSE IF c = OP3 THEN "OP3"
    ELSE IF c = OP4 THEN "OP4"
    ELSE "INVALID"

\* the labels of the switch of lines 23-37
Label(c) ==
    IF c = OP1 THEN "OP1"
    ELSE IF c = OP2 THEN "OP2"
    ELSE IF c = OP3 THEN "OP3"
    ELSE IF c = OP4 THEN "OP4"
    ELSE "INVALID"

\* lines 23-40
PrintCmd ==
    /\ pc = "print_cmd"
    /\ IF Get(args.cmd) \in Commands
       THEN /\ out' = Append(out, Label(Get(args.cmd)))
            /\ pc' = "print_ret"
            /\ UNCHANGED <<status, exit_in>>
       ELSE Exit1(Label(Get(args.cmd)), "print_arg")
    /\ UNCHANGED <<argc, argv, counter, args, cmd, reads>>

----------------------------------------------------------------------------
(* main *)

\* line 89
MainReturn ==
    /\ pc = "print_ret"
    /\ status' = "exit0"
    /\ exit_in' = "main"
    /\ pc' = "exited"
    /\ UNCHANGED <<argc, argv, counter, args, cmd, out, reads>>

NoArgs == [value |-> Indet, sub_value |-> Indet, cmd |-> Indet]

\* the process starts with any argument vector
Init ==
    /\ argc \in 1..MaxArgc
    /\ argv \in [1..(argc - 1) -> Tokens]
    /\ pc = "parse_arg"
    /\ counter = 0
    /\ args = NoArgs
    /\ cmd = 0
    /\ out = <<>>
    /\ status = "running"
    /\ reads = {}
    /\ exit_in = "none"

Next ==
    \/ ParseArity
    \/ ParseValue
    \/ ParseSubValueLen
    \/ ParseSubValueChar
    \/ ParseCmdScan
    \/ ParseCmdSwitch
    \/ PrintValue
    \/ PrintSubValue
    \/ PrintCmd
    \/ MainReturn

Spec == Init /\ [][Next]_vars

(* print_arg called on any record, the four variants and a tag outside them *)
InitPrint ==
    /\ argc = 1
    /\ argv = <<>>
    /\ pc = "print_arg"
    /\ counter = 0
    /\ args \in [value : {Val(v) : v \in (0 - MaxAbsValue)..MaxAbsValue},
                 sub_value : {Val(c) : c \in PrintChars},
                 cmd : {Val(c) : c \in Commands \cup {4}}]
    /\ cmd = 0
    /\ out = <<>>
    /\ status = "running"
    /\ reads = {}
    /\ exit_in = "none"

NextPrint ==
    \/ PrintValue
    \/ PrintSubValue
    \/ PrintCmd

SpecPrint == InitPrint /\ [][NextPrint]_vars

----------------------------------------------------------------------------
(* Vocabulary of the properties *)

Range(q) == {q[i] : i \in 1..Len(q)}

Terminated == pc = "exited"

PrintPcs == {"print_arg", "print_sub", "print_cmd", "print_ret"}

\* print_arg has been entered
EnteredPrint == pc \in PrintPcs \/ exit_in \in {"print_arg", "main"}

\* "0", "1", "2", "3"
ValidCmdTokens == {<<48>>, <<49>>, <<50>>, <<51>>}

\* the whole token is an optionally signed decimal number
IsIntText(s) ==
    LET j == IF Len(s) > 0 /\ s[1] \in {43, 45} THEN 2 ELSE 1
    IN  DigitRun(s, j) > 0 /\ j + DigitRun(s, j) = Len(s) + 1

\* the output holds a "value: <n>" segment
HasValueSeg == \E i \in 1..Len(out) : \E v \in -9..9 : out[i] = Fmt("value: ", v)

\* the labels as the specification names them, by command code
SpecLabel(c) ==
    IF c = 0 THEN "First"
    ELSE IF c = 1 THEN "Second"
    ELSE IF c = 2 THEN "Third"
    ELSE "Fourth"

\* the labels as the source spells them, by command code
CodeLabel(c) ==
    IF c = 0 THEN "OP1"
    ELSE IF c = 1 THEN "OP2"
    ELSE IF c = 2 THEN "OP3"
    ELSE "OP4"

\* what print_arg has to have written, up to and including step n of 3
Rendering(n, label) ==
    (IF Get(args.value) /= 0 THEN <<Fmt("value: ", Get(args.value))>> ELSE <<>>)
    \o (IF n >= 2 THEN <<Fmt("sub_value ", Get(args.sub_value))>> ELSE <<>>)
    \o (IF n >= 3 THEN <<label>> ELSE <<>>)

----------------------------------------------------------------------------
(* C1: a run on two tokens, the first of length 1 and the second one of    *)
(* "0".."3", ends with status 0, writes no "value: " segment and writes    *)
(* the label of the second token (0 First, 1 Second, 2 Third, 3 Fourth).   *)
C1_TwoTokenRun ==
    (argc = 3 /\ Terminated /\ Len(argv[1]) = 1 /\ argv[2] \in ValidCmdTokens)
    => /\ status = "exit0"
       /\ ~HasValueSeg
       /\ SpecLabel(Scan(argv[2]).val) \in Range(out)

(* C2: a run on three tokens <value> <sub_value> <cmd>, value an integer   *)
(* in text, sub_value of length 1, cmd one of "0".."3", ends with status 0 *)
(* and its output begins with "value: <value>" exactly when value is not   *)
(* 0; otherwise it begins with the sub_value segment.                      *)
C2_ThreeTokenRun ==
    (argc = 4 /\ Terminated /\ IsIntText(argv[1]) /\ Len(argv[2]) = 1
        /\ argv[3] \in ValidCmdTokens)
    => /\ status = "exit0"
       /\ Len(out) >= 1
       /\ (Scan(argv[1]).val /= 0 => out[1] = Fmt("value: ", Scan(argv[1]).val))
       /\ (Scan(argv[1]).val = 0 => out[1] = Fmt("sub_value ", argv[2][1]))

(* C3: with a number of tokens other than 2 and 3, parse_arg writes the    *)
(* arity diagnostic and nothing else, the process ends with status 1, no   *)
(* token is read and print_arg is never entered.                           *)
C3_WrongArity ==
    (argc - 1) \notin {2, 3}
    => /\ pc \in {"parse_arg", "exited"}
       /\ ~EnteredPrint
       /\ reads = {}
       /\ Terminated => /\ status = "exit1"
                        /\ exit_in = "parse_arg"
                        /\ out = <<"Need 2 or 3 args">>

C3_Witness ==
    /\ argc = 5
    /\ Terminated
    /\ status = "exit1"
    /\ out = <<"Need 2 or 3 args">>

(* C4: with 2 or 3 tokens whose second-to-last token is not of length 1,   *)
(* the process writes the length diagnostic and nothing else and ends with *)
(* status 1, and the command token is never read, whatever it holds.       *)
C4_BadSubValueLength ==
    (argc \in {3, 4} /\ Len(argv[argc - 2]) /= 1)
    => /\ pc \in {"parse_arg", "parse_value", "parse_len", "exited"}
       /\ ~EnteredPrint
       /\ \A r \in reads : r[1] < argc - 1 \/ r = <<argc - 2, "sub_value_len">>
       /\ Terminated => /\ status = "exit1"
                        /\ exit_in = "parse_arg"
                        /\ out = <<"arg sub_value need to be size 1">>

C4_Witness ==
    /\ argc = 4
    /\ argv[2] = <<98, 98>>
    /\ argv[3] = <<57>>
    /\ Terminated
    /\ status = "exit1"
    /\ <<2, "sub_value_len">> \in reads

(* C5: with 2 or 3 tokens, the sub_value token of length 1 and the last    *)
(* token not one of "0".."3", the process writes the invalid-command       *)
(* diagnostic, ends with status 1 and never enters print_arg.              *)
C5_BadCommandToken ==
    (argc \in {3, 4} /\ Len(argv[argc - 2]) = 1
        /\ argv[argc - 1] \notin ValidCmdTokens)
    => /\ ~EnteredPrint
       /\ Terminated => /\ status = "exit1"
                        /\ out = <<"Invalid cmd">>

(* C6: the sub_value field of the record parse_arg builds is the single    *)
(* character of the token whose length was checked, the second-to-last.    *)
C6_SubValueFromCheckedToken ==
    (argc \in {3, 4} /\ args.sub_value /= Indet)
    => /\ <<argc - 2, "sub_value_len">> \in reads
       /\ Get(args.sub_value) = argv[argc - 2][1]

(* C7, as the specification states it: on a record with one of the four    *)
(* variants print_arg returns after writing the value segment when value   *)
(* is not 0, then "sub_value <code>", then the label First, Second, Third  *)
(* or Fourth of the variant.                                               *)
C7_SpecLabels ==
    (Get(args.cmd) \in Commands /\ pc = "print_ret")
    => out = Rendering(3, SpecLabel(Get(args.cmd)))

(* C7, amended: on a record with one of the four variants print_arg        *)
(* returns normally after writing, in this order, the value segment only   *)
(* when value is not 0, then "sub_value <code>", then exactly one label,   *)
(* which is OP1, OP2, OP3 or OP4 for the first to fourth variant.          *)
C7_CodeLabels ==
    Get(args.cmd) \in Commands
    => /\ ~Terminated
       /\ pc = "print_arg" => out = <<>>
       /\ pc = "print_sub" => out = Rendering(1, "")
       /\ pc = "print_cmd" => out = Rendering(2, "")
       /\ pc = "print_ret" => out = Rendering(3, CodeLabel(Get(args.cmd)))

C7_Witness ==
    /\ pc = "print_ret"
    /\ Get(args.cmd) = OP2
    /\ Get(args.value) = 0 - 1
    /\ out = <<"value: -1", "sub_value 97", "OP2">>

(* C8: once lines 49-53 have run, the value field is a defined integer: 0  *)
(* with 2 tokens, and 0 with 3 tokens whose first is no integer; in both   *)
(* cases no value segment is written.                                      *)
C8_ValueDefined ==
    (argc \in {3, 4} /\ pc \notin {"parse_arg", "parse_value"})
    => /\ args.value /= Indet
       /\ (argc = 3 \/ ~Scan(argv[1]).matched)
            => (Get(args.value) = 0 /\ ~HasValueSeg)

(* C9: in every run of main the default branch of print_arg is never       *)
(* taken: print_arg only ever sees one of OP1..OP4, and every exit with    *)
(* status 1 is made by parse_arg, with its diagnostic as the only output.  *)
C9_PrintDefaultUnreachable ==
    /\ exit_in /= "print_arg"
    /\ "INVALID" \notin Range(out)
    /\ pc \in PrintPcs => (args.cmd /= Indet /\ Get(args.cmd) \in Commands)
    /\ status = "exit1"
         => /\ exit_in = "parse_arg"
            /\ out \in {<<"Need 2 or 3 args">>,
                        <<"arg sub_value need to be size 1">>,
                        <<"Invalid cmd">>}

C9_Witness ==
    /\ pc = "print_ret"
    /\ Get(args.cmd) = OP4
    /\ "OP4" \in Range(out)

(* C10: with argc 3 or 4 parse_arg reads argv only at indices 1..argc-1,   *)
(* one token per field, and the cursor is argc when the scan is over.      *)
C10_ReadsInBounds ==
    argc \in {3, 4}
    => /\ \A r \in reads : r[1] \in 1..(argc - 1)
       /\ \A r1, r2 \in reads : r1[1] = r2[1] => r1 = r2
       /\ pc \in ({"parse_switch"} \cup PrintPcs) => counter = argc

====
